---- MODULE Spec2Model ----
(***************************************************************************)
(* A model of weekly's multi-repository scanner (weekly/git_scanner.py):   *)
(* repository discovery, the per-repository scan unit, the thread-pool     *)
(* orchestrator, the per-repository report writer and the summary.         *)
(*                                                                         *)
(* Strings that the program compares or lower-cases are sequences of       *)
(* character codes; a path relative to the scan root is the sequence of    *)
(* its segments.                                                           *)
(***************************************************************************)
EXTENDS Integers, Sequences, FiniteSets, TLC

\* ------------------------------------------------------------------------
\* Bounds of the model
\* ------------------------------------------------------------------------
\* The largest number of repository markers in the scanned tree.
MaxRepos == 2
\* The largest value of GitScanner.jobs.
MaxJobs == 2
\* The last second the wall clock reaches.
MaxClock == 2
\* The largest number of runs of the report writer on one output directory.
MaxRuns == 2
\* The day number of today; days are counted from 0.
MaxDay == 1
\* The number of clock ticks in a day: a time of day is 0..TicksPerDay - 1.
TicksPerDay == 2
\* The largest number of repository markers in a tree that is only searched.
MaxMarkers == 3

\* ------------------------------------------------------------------------
\* Strings
\* ------------------------------------------------------------------------
Str_empty == << >>
Str_a == <<97>>
Str_A == <<65>>
Str_b == <<98>>
Str_o == <<111>>
Str_x == <<120>>

\* str.lower() on one character: only A..Z change.
LowerChar(c) == IF c >= 65 /\ c <= 90 THEN c + 32 ELSE c

\* str.lower()
Lower(s) == [i \in 1..Len(s) |-> LowerChar(s[i])]

MinOf(a, b) == IF a <= b THEN a ELSE b

\* Python's < on str: lexicographic by code point, a proper prefix is smaller.
StrLess(s, t) ==
    \E k \in 0..MinOf(Len(s), Len(t)) :
        /\ \A i \in 1..k : s[i] = t[i]
        /\ \/ (k = Len(s) /\ k < Len(t))
           \/ (k < Len(s) /\ k < Len(t) /\ s[k + 1] < t[k + 1])

\* ------------------------------------------------------------------------
\* The scanned tree
\* ------------------------------------------------------------------------
\* The name of the scan root directory itself (git_dir.name of the root).
RootName == Str_a

\* The directories, relative to the scan root, that may hold a .git marker.
CandidatePaths ==
    { << >>, <<Str_a>>, <<Str_A>>, <<Str_o, Str_b>>, <<Str_o, Str_x, Str_b>> }

IsPrefix(p, q) == Len(p) <= Len(q) /\ \A i \in 1..Len(p) : p[i] = q[i]

IsProperPrefix(p, q) == IsPrefix(p, q) /\ Len(p) < Len(q)

RECURSIVE CommonPrefixLen(_, _)
CommonPrefixLen(p, q) ==
    IF p = << >> \/ q = << >> \/ Head(p) # Head(q)
    THEN 0
    ELSE 1 + CommonPrefixLen(Tail(p), Tail(q))

Range(s) == { s[i] : i \in 1..Len(s) }

\* The orders in which os.walk (top-down) can yield the directories of s: a
\* directory before everything below it, every subtree in one block, the
\* order of siblings being whatever the file system lists.
ValidWalk(s) ==
    /\ \A i, j \in 1..Len(s) : i # j => s[i] # s[j]
    /\ \A i, j \in 1..Len(s) : i < j => ~IsProperPrefix(s[j], s[i])
    /\ \A i, j, k \in 1..Len(s) :
          (i < j /\ j < k) =>
              CommonPrefixLen(s[i], s[k]) <= CommonPrefixLen(s[i], s[j])

SeqsOver(S, n) == UNION { [1..m -> S] : m \in 0..n }

Walks == { s \in SeqsOver(CandidatePaths, MaxRepos) : ValidWalk(s) }

\* ------------------------------------------------------------------------
\* Repository discovery (GitScanner.find_git_repos)
\* ------------------------------------------------------------------------
\* A datetime is a number of ticks; an Optional[datetime] is the set of its
\* values: None is the empty set. A date is a day number.
NoDate == {}

DateOf(d) == CHOOSE x \in d : TRUE

\* datetime.date()
DayOf(t) == t \div TicksPerDay

\* A default of seven ticks instead of seven days.
DefaultSince_SevenTicks(sinceArg, nowTicks) ==
    IF sinceArg = NoDate THEN nowTicks - 7 ELSE DateOf(sinceArg)

\* GitScanner.__init__: a missing since becomes seven days before now.
DefaultSince(sinceArg, nowTicks) ==
    IF sinceArg = NoDate THEN nowTicks - 7 * TicksPerDay ELSE DateOf(sinceArg)

\* What _run_git gives for one git command: the return code, the kind of the
\* text on stdout and, for the date "git log" prints, the time of the commit.
\* A command that cannot be started counts as return code 1.
GitFailed == [rc |-> 1, text |-> "", at |-> 0]

GitSays(t) == [rc |-> 0, text |-> t, at |-> 0]

GitLogAt(t) == [rc |-> 0, text |-> "date", at |-> t]

\* git answers every command; the last commit was made at tick t.
GitOk(t) == [branch |-> GitSays("dev"), log |-> GitLogAt(t), remote |-> GitSays("url")]

\* git log fails (no commit, or no git); the other commands are answered.
GitNoLog == [branch |-> GitSays("dev"), log |-> GitFailed, remote |-> GitSays("url")]

\* An extraction that gives up at the first command that fails: the fields
\* after it keep their defaults.
ExtractMetadata_StopAtFailure(m) ==
    [branch |-> IF m.branch.rc = 0 /\ m.branch.text # "" THEN m.branch.text ELSE "main",
     last_commit_date |->
         IF m.branch.rc = 0 /\ m.log.rc = 0 /\ m.log.text = "date"
         THEN { DayOf(m.log.at) }
         ELSE NoDate,
     remote_url |->
         IF m.branch.rc = 0 /\ m.log.rc = 0 /\ m.remote.rc = 0 /\ m.remote.text # ""
         THEN m.remote.text
         ELSE ""]

\* GitRepo._extract_metadata on the answers m of git: a field is set only
\* from a successful command with output; the date is read from the first
\* word of the output ("%Y-%m-%d"), so the time of the commit is lost, and
\* output that is no date leaves the field None.
ExtractMetadata(m) ==
    [branch |-> IF m.branch.rc = 0 /\ m.branch.text # "" THEN m.branch.text ELSE "main",
     last_commit_date |->
         IF m.log.rc = 0 /\ m.log.text = "date" THEN { DayOf(m.log.at) } ELSE NoDate,
     remote_url |-> IF m.remote.rc = 0 /\ m.remote.text # "" THEN m.remote.text ELSE ""]

\* The os.walk loop: every directory holding .git is recorded; below such a
\* directory the walk goes on unless recursive is false.
GitDirs(walk, rec) ==
    SelectSeq(walk,
              LAMBDA p : rec \/ ~\E i \in 1..Len(walk) : IsProperPrefix(walk[i], p))

\* An organization taken from the parent directory of the repository.
RepoOrg_Parent(p) == IF Len(p) <= 1 THEN Str_empty ELSE p[Len(p) - 1]

\* Organization and name from the path relative to the root.
RepoOrg(p) == IF Len(p) <= 1 THEN Str_empty ELSE p[1]

RepoName(p) == IF p = << >> THEN RootName ELSE p[Len(p)]

\* A constructor that does not ask for a name.
NewGitRepo_NameOptional(path, pathGiven, name, org, m) ==
    IF ~pathGiven
    THEN {}
    ELSE { [path |-> path, org |-> org, name |-> name,
            branch |-> ExtractMetadata(m).branch,
            last_commit_date |-> ExtractMetadata(m).last_commit_date,
            remote_url |-> ExtractMetadata(m).remote_url] }

\* GitRepo.__post_init__: ValueError unless path and name are given (neither
\* empty); otherwise the object with its extracted metadata. The set of the
\* objects constructed: empty when the constructor raised.
NewGitRepo(path, pathGiven, name, org, m) ==
    IF ~pathGiven \/ name = Str_empty
    THEN {}
    ELSE { [path |-> path, org |-> org, name |-> name,
            branch |-> ExtractMetadata(m).branch,
            last_commit_date |-> ExtractMetadata(m).last_commit_date,
            remote_url |-> ExtractMetadata(m).remote_url] }

\* GitRepo(path=git_dir, name=repo_name, org=org) as find_git_repos calls it,
\* metas giving the answers of git in every directory.
GitRepo(p, metas) == NewGitRepo(p, TRUE, RepoName(p), RepoOrg(p), metas[p])

\* A has_recent_changes that compares the times, not the calendar dates.
HasRecentChanges_ByTime(repo, sinceTime) ==
    IF repo.last_commit_date = NoDate
    THEN FALSE
    ELSE DateOf(repo.last_commit_date) * TicksPerDay >= sinceTime

\* GitRepo.has_recent_changes
HasRecentChanges(repo, sinceTime) ==
    IF repo.last_commit_date = NoDate
    THEN FALSE
    ELSE DateOf(repo.last_commit_date) >= DayOf(sinceTime)

\* The loop "for git_dir in git_dirs": a ValueError of the constructor is
\* logged and the directory skipped; a repository without recent changes is
\* skipped.
RECURSIVE FindGitRepos(_, _, _)
FindGitRepos(gitDirs, metas, sinceTime) ==
    IF gitDirs = << >>
    THEN << >>
    ELSE LET made == GitRepo(Head(gitDirs), metas)
             rest == FindGitRepos(Tail(gitDirs), metas, sinceTime)
         IN  IF made = {}
             THEN rest
             ELSE LET repo == CHOOSE r \in made : TRUE
                  IN  IF ~HasRecentChanges(repo, sinceTime) THEN rest ELSE <<repo>> \o rest

\* ------------------------------------------------------------------------
\* The checker registry and what a checker does on a project
\* ------------------------------------------------------------------------
\* The checkers of scan_repo in the order in which analyze_project lists
\* them.
Checkers_AnalyzerOrder ==
    << "style", "testing", "documentation", "ci_cd",
       "dependencies", "code_quality", "security", "packaging" >>

\* The list "checkers" of scan_repo, by checker.name, in its order.
Checkers ==
    << "style", "code_quality", "dependencies", "documentation",
       "testing", "ci_cd", "security", "packaging" >>

CheckerNames == Range(Checkers)

\* What check(project) does: it raises, returns None, or returns a
\* CheckResult with a status.
Outcomes == { "raise", "null", "success", "error" }

\* The value of result.results for a checker that has no entry.
Absent == "absent"

\* A project, as far as scan_repo sees it: the outcome of every checker.
Projects == [CheckerNames -> Outcomes]

AllSuccess == [c \in CheckerNames |-> "success"]

\* The projects of the multi-repository runs: a clean one, and one on which
\* one checker raises, one does not apply and one reports an error.
OneOfEach ==
    [AllSuccess EXCEPT !["dependencies"] = "raise",
                       !["ci_cd"] = "null",
                       !["security"] = "error"]

ScanProjects == { AllSuccess, OneOfEach }

NoResults == [c \in CheckerNames |-> Absent]

\* ------------------------------------------------------------------------
\* The output directory tree
\* ------------------------------------------------------------------------
\* output_dir / repo.org / repo.name, relative to output_dir: an empty org
\* adds no segment.
OutDir(repo) ==
    IF repo.org = Str_empty THEN <<repo.name>> ELSE <<repo.org, repo.name>>

\* The suffixes of the report files, in the order of the "latest" loop.
Suffixes == << ".html", ".md", ".llm.md" >>

\* The file system below output_dir: whether output_dir exists, the report
\* directories that exist, those holding changelog.md, the timestamped report
\* files <<directory, timestamp, suffix>> and the latest links
\* <<directory, suffix, timestamp of the file linked to>>.
EmptyFs ==
    [root |-> FALSE, dirs |-> {}, changelog |-> {}, files |-> {}, latest |-> {}]

\* mkdir(parents=True, exist_ok=True) of a report directory
Mkdir(fs, dir) == [fs EXCEPT !.root = TRUE, !.dirs = @ \cup {dir}]

\* Writing changelog.md into a report directory.
WriteChangelog(fs, dir) == [fs EXCEPT !.changelog = @ \cup {dir}]

\* GitReportGenerator.generate_html_report: the Markdown, the LLM and the HTML
\* report are written beside each other under the same timestamp.
GenerateHtmlReport(fs, dir, stamp) ==
    [fs EXCEPT !.files = @ \cup { <<dir, stamp, Suffixes[i]>> : i \in 1..Len(Suffixes) }]

\* One round of the "latest" loop: an existing link is removed, and a link to
\* the file of this run is made if that file exists; symlink_to fails (and
\* the failure is only logged) if the name is still taken.
UpdateLatest(fs, dir, stamp, suffix) ==
    LET unlinked == { l \in fs.latest : ~(l[1] = dir /\ l[2] = suffix) }
        taken    == \E l \in unlinked : l[1] = dir /\ l[2] = suffix
    IN  IF <<dir, stamp, suffix>> \in fs.files /\ ~taken
        THEN [fs EXCEPT !.latest = unlinked \cup { <<dir, suffix, stamp>> }]
        ELSE [fs EXCEPT !.latest = unlinked]

RECURSIVE UpdateLatestFrom(_, _, _, _)
UpdateLatestFrom(fs, dir, stamp, i) ==
    IF i > Len(Suffixes)
    THEN fs
    ELSE UpdateLatestFrom(UpdateLatest(fs, dir, stamp, Suffixes[i]), dir, stamp, i + 1)

\* ------------------------------------------------------------------------
\* The per-repository report writer (GitScanner._generate_repo_report)
\* ------------------------------------------------------------------------
\* A call with keyword arguments is accepted when every keyword is a
\* parameter and every parameter without default is given; otherwise Python
\* raises TypeError.
Accepts(params, required, kwargs) == kwargs \subseteq params /\ required \subseteq kwargs

\* The fields of the dataclass weekly.git_report.RepoInfo.
RepoInfoParams ==
    { "name", "org", "path", "branch", "remote_url", "last_commit_date", "has_errors" }

RepoInfoRequired == { "name" }

\* The keywords _generate_repo_report passes to RepoInfo.
RepoInfoKwargs ==
    { "name", "org", "path", "branch", "remote_url", "last_commit_date",
      "has_errors", "scan_command", "scan_since" }

\* The parameters of weekly.git_report.CheckResult.__init__.
ReportCheckResultParams ==
    { "name", "description", "is_ok", "message", "details", "next_steps",
      "severity", "metadata" }

ReportCheckResultRequired == { "name", "description", "is_ok", "message" }

\* The keywords _generate_repo_report passes to that class.
ReportCheckResultKwargs ==
    { "checker_name", "title", "status", "details", "suggestions", "metadata",
      "description" }

\* A has_errors loop that takes a missing result for a failure.
HasErrors_NullFlags(res) ==
    \/ res.error # "none"
    \/ \E c \in CheckerNames : res.results[c] \notin { Absent, "success" }

\* The has_errors loop: a result that is not None and not a success.
HasErrors(res) ==
    \/ res.error # "none"
    \/ \E c \in CheckerNames : res.results[c] \notin { Absent, "null", "success" }

\* Whether the conversion loop or the changelog entry builds a report
\* CheckResult.
BuildsCheckResult(res) ==
    \/ \E c \in CheckerNames : res.results[c] \notin { Absent, "null" }
    \/ res.change_summary

\* _generate_repo_report(repo, result) at wall-clock second stamp: the file
\* system it leaves, and whether it raised.
GenerateRepoReport(fs, repo, res, stamp) ==
    LET dir == OutDir(repo)
        fs1 == Mkdir(fs, dir)
    IN  IF ~Accepts(RepoInfoParams, RepoInfoRequired, RepoInfoKwargs)
        THEN [fs |-> fs1, raised |-> TRUE]
        ELSE IF /\ BuildsCheckResult(res)
                /\ ~Accepts(ReportCheckResultParams, ReportCheckResultRequired,
                            ReportCheckResultKwargs)
        THEN [fs |-> fs1, raised |-> TRUE]
        ELSE [fs |-> UpdateLatestFrom(GenerateHtmlReport(fs1, dir, stamp), dir, stamp, 1),
              raised |-> FALSE]

\* ------------------------------------------------------------------------
\* The summary (GitScanner._generate_summary_report)
\* ------------------------------------------------------------------------
\* A comparison of the keys that forgets to lower-case them.
KeyLess_CaseSensitive(x, y) ==
    \/ StrLess(x.org, y.org)
    \/ x.org = y.org /\ StrLess(x.name, y.name)

\* The sort key (org.lower(), name.lower()) compared as Python compares
\* tuples of strings.
KeyLess(x, y) ==
    \/ StrLess(Lower(x.org), Lower(y.org))
    \/ Lower(x.org) = Lower(y.org) /\ StrLess(Lower(x.name), Lower(y.name))

\* list.sort is stable: an entry goes behind the entries it is not smaller
\* than.
RECURSIVE InsertSorted(_, _)
InsertSorted(e, s) ==
    IF s = << >>
    THEN <<e>>
    ELSE IF KeyLess(e, Head(s))
         THEN <<e>> \o s
         ELSE <<Head(s)>> \o InsertSorted(e, Tail(s))

RECURSIVE SortFrom(_, _)
SortFrom(s, acc) ==
    IF s = << >> THEN acc ELSE SortFrom(Tail(s), InsertSorted(Head(s), acc))

\* repos_data.sort(key=...)
SortRepos(s) == SortFrom(s, << >>)

\* One entry of repos_data.
SummaryEntry(repo, res) ==
    [name |-> repo.name, org |-> repo.org, path |-> repo.path,
     has_errors |-> HasErrors(res),
     report_path |-> OutDir(repo) \o <<"latest.html">>]

\* ------------------------------------------------------------------------
\* The working tree of a repository (GitChangeAnalyzer)
\* ------------------------------------------------------------------------
\* What the file .cliff.toml of a repository holds: it does not exist, it is
\* the repository's own configuration, or it is the configuration
\* generate_changelog_with_git_cliff writes.
NoFile == "no file"

OwnConfig == "own config"

MinimalConfig == "minimal config"

\* generate_changelog_with_git_cliff on a writable repository: open(
\* config_path, "w") replaces the file by the minimal configuration, and the
\* finally clause unlinks config_path when it exists, on every return and on
\* every exception of the try block.
GenerateChangelogWithGitCliff(cliffToml) ==
    LET written == MinimalConfig
    IN  IF written # NoFile THEN NoFile ELSE written

\* ------------------------------------------------------------------------
\* State
\* ------------------------------------------------------------------------
VARIABLES
    jobs,           \* GitScanner.jobs
    recursive,      \* GitScanner.recursive
    sinceArg,       \* the argument since of GitScanner(...), an Optional[datetime]
    since,          \* GitScanner.since, a time in ticks
    rootExists,     \* whether root_dir exists
    outWritable,    \* whether output_dir can be created
    walk,           \* the directories holding .git, in the order os.walk meets them
    meta,           \* what git answers in each of them
    project,        \* what every checker does on each of them
    now,            \* the wall clock, in seconds
    fs,             \* the file system below output_dir
    opc,            \* where scan_all is
    repos,          \* the list find_git_repos returned
    submitted,      \* how many units executor.submit has been called for
    upc,            \* where each unit (call of scan_repo) is
    idx,            \* the position of each unit in the checker list
    invoked,        \* per unit, the checkers whose check() was called, in order
    results,        \* per unit, ScanResult.results
    error,          \* per unit, ScanResult.error
    changeSummary,  \* per unit, whether ScanResult.change_summary is set
    future,         \* per unit, the state of its Future
    collected,      \* the units as_completed has yielded
    scanResults,    \* the list "results" of scan_all, by unit
    summaryCalls,   \* how many times _generate_summary_report was called
    summaryWrites,  \* the entry lists written to summary.html, one per write
    runLog,         \* the runs of the report writer: timestamp and outcome
    built,          \* the direct constructions GitRepo(...) made, with their outcome
    worktree,       \* per repository, the file .cliff.toml of its working tree
    cli,            \* the command line run: its arguments, where it is, its exit code
    report          \* the core Report: its results and its summary counters

inputVars == <<jobs, recursive, sinceArg, since, rootExists, outWritable, walk, meta, project>>

unitVars == <<upc, idx, invoked, results, error, changeSummary, future>>

orchVars == <<opc, repos, submitted, collected, scanResults, summaryCalls, summaryWrites>>

toolVars == <<cli, report>>

vars == <<inputVars, now, fs, orchVars, unitVars, runLog, built, worktree, toolVars>>

Units == 1..Len(repos)

\* The ScanResult of unit u.
ScanResultOf(u) ==
    [results |-> results[u], error |-> error[u], change_summary |-> changeSummary[u]]

\* A unit is executing from the moment a worker thread takes it from the
\* queue until scan_repo returns or raises.
Executing(u) == upc[u] \in { "changelog", "checkers", "report" }

Today == MaxDay

\* datetime.now() when the GitScanner is created: late on that day.
NowAtInit == Today * TicksPerDay + (TicksPerDay - 1)

\* The last commit date find_git_repos reads in every directory of the walk.
dates == [p \in DOMAIN meta |-> ExtractMetadata(meta[p]).last_commit_date]

\* ------------------------------------------------------------------------
\* Initial states
\* ------------------------------------------------------------------------
\* A GitScanner(root_dir, output_dir, since, recursive, jobs), since taken
\* from sinceArgs, on a tree whose repositories have the projects of projs
\* and the git answers of metas, before scan_all is called; the file
\* systems are chosen by the caller.
InitCore(walks, projs, jobCounts, sinceArgs, metas) ==
    /\ jobs \in jobCounts
    /\ recursive \in BOOLEAN
    /\ sinceArg \in sinceArgs
    /\ since = DefaultSince(sinceArg, NowAtInit)
    /\ walk \in walks
    /\ meta \in [Range(walk) -> metas]
    /\ project \in [Range(walk) -> projs]
    /\ now = 0
    /\ opc = "start"
    /\ repos = << >>
    /\ submitted = 0
    /\ upc = << >>
    /\ idx = << >>
    /\ invoked = << >>
    /\ results = << >>
    /\ error = << >>
    /\ changeSummary = << >>
    /\ future = << >>
    /\ collected = {}
    /\ scanResults = << >>
    /\ summaryCalls = 0
    /\ summaryWrites = << >>
    /\ runLog = << >>
    /\ built = {}

\* The working trees in which no repository has a .cliff.toml.
NoCliffToml == [p \in Range(walk) |-> [before |-> NoFile, cliff_toml |-> NoFile]]

\* No command line run.
NoCli == [pc |-> "none", cmd |-> "none"]

\* No core Report.
NoReport == [pc |-> "none"]

\* A GitScanner created by a caller, not by the command line, on
\* repositories without a .cliff.toml and with an output directory that
\* does not exist yet.
InitWith(walks, projs, jobCounts, sinceArgs, metas) ==
    /\ InitCore(walks, projs, jobCounts, sinceArgs, metas)
    /\ fs = EmptyFs
    /\ worktree = NoCliffToml
    /\ cli = NoCli
    /\ report = NoReport

\* A GitScanner created without since, on an existing root and with an
\* output directory that can be created; every repository was committed to
\* today or has no commit that git log shows.
InitScanner(walks, projs, jobCounts) ==
    /\ InitWith(walks, projs, jobCounts, { NoDate }, { GitNoLog, GitOk(Today * TicksPerDay) })
    /\ rootExists = TRUE
    /\ outWritable = TRUE

Init == InitScanner(Walks, ScanProjects, 1..MaxJobs)

\* One repository, with every combination of checker outcomes.
InitUnit ==
    /\ InitScanner({ << <<Str_o, Str_b>> >> }, Projects, {1})
    /\ recursive
    /\ \A p \in Range(walk) : dates[p] # NoDate

\* The report writer alone, on the report directory of one repository, with
\* the results of a finished scan of it.
InitReport ==
    /\ InitScanner({ <<p>> : p \in CandidatePaths }, ScanProjects, {1})
    /\ recursive
    /\ \A p \in Range(walk) : dates[p] # NoDate

\* ------------------------------------------------------------------------
\* scan_all, up to the submission of the units
\* ------------------------------------------------------------------------
\* self.find_git_repos(): the empty list when root_dir does not exist, else
\* the repositories of the walk that pass the date filter.
FindRepos ==
    IF ~rootExists
    THEN << >>
    ELSE FindGitRepos(GitDirs(walk, recursive), meta, since)

\* A scan_all that creates output_dir before it looks at the list.
ScanAllStart_MkdirFirst ==
    /\ opc = "start"
    /\ LET found == FindRepos
           n     == Len(found)
       IN  /\ repos' = found
           /\ opc' = IF found = << >> THEN "returned"
                     ELSE IF ~outWritable THEN "raised" ELSE "submit"
           /\ fs' = IF ~outWritable THEN fs ELSE [fs EXCEPT !.root = TRUE]
           /\ upc' = [u \in 1..n |-> "new"]
           /\ idx' = [u \in 1..n |-> 1]
           /\ invoked' = [u \in 1..n |-> << >>]
           /\ results' = [u \in 1..n |-> NoResults]
           /\ error' = [u \in 1..n |-> "none"]
           /\ changeSummary' = [u \in 1..n |-> FALSE]
           /\ future' = [u \in 1..n |-> "pending"]
    /\ UNCHANGED <<inputVars, worktree, toolVars, built, now, submitted, collected, scanResults,
                   summaryCalls, summaryWrites, runLog>>

\* find_git_repos, the early return on an empty list, and the creation of
\* output_dir, whose OSError leaves scan_all.
ScanAllStart ==
    /\ opc = "start"
    /\ LET found == FindRepos
           n     == Len(found)
       IN  /\ repos' = found
           /\ opc' = IF found = << >> THEN "returned"
                     ELSE IF ~outWritable THEN "raised" ELSE "submit"
           /\ fs' = IF found = << >> \/ ~outWritable THEN fs ELSE [fs EXCEPT !.root = TRUE]
           /\ upc' = [u \in 1..n |-> "new"]
           /\ idx' = [u \in 1..n |-> 1]
           /\ invoked' = [u \in 1..n |-> << >>]
           /\ results' = [u \in 1..n |-> NoResults]
           /\ error' = [u \in 1..n |-> "none"]
           /\ changeSummary' = [u \in 1..n |-> FALSE]
           /\ future' = [u \in 1..n |-> "pending"]
    /\ UNCHANGED <<inputVars, worktree, toolVars, built, now, submitted, collected, scanResults,
                   summaryCalls, summaryWrites, runLog>>

\* executor.submit(self.scan_repo, repo) for the next repository of the list.
Submit ==
    /\ opc = "submit"
    /\ submitted < Len(repos)
    /\ submitted' = submitted + 1
    /\ upc' = [upc EXCEPT ![submitted + 1] = "queued"]
    /\ opc' = IF submitted + 1 = Len(repos) THEN "collect" ELSE "submit"
    /\ UNCHANGED <<inputVars, worktree, toolVars, built, now, fs, repos, collected, scanResults, summaryCalls,
                   summaryWrites, idx, invoked, results, error, changeSummary,
                   future, runLog>>

\* ------------------------------------------------------------------------
\* The worker pool and the scan unit (GitScanner.scan_repo)
\* ------------------------------------------------------------------------
\* A pool that starts a thread for every queued unit.
Start_Unbounded(u) ==
    /\ upc[u] = "queued"
    /\ \A v \in Units : v < u => upc[v] # "queued"
    /\ upc' = [upc EXCEPT ![u] = "changelog"]
    /\ UNCHANGED <<inputVars, worktree, toolVars, built, now, fs, orchVars, idx, invoked, results, error,
                   changeSummary, future, runLog>>

\* A pool whose threads end after their first unit: at most jobs units are
\* ever taken.
Start_NoReuse(u) ==
    /\ upc[u] = "queued"
    /\ \A v \in Units : v < u => upc[v] # "queued"
    /\ Cardinality({ v \in Units : upc[v] \notin { "new", "queued" } }) < jobs
    /\ upc' = [upc EXCEPT ![u] = "changelog"]
    /\ UNCHANGED <<inputVars, worktree, toolVars, built, now, fs, orchVars, idx, invoked, results, error,
                   changeSummary, future, runLog>>

\* A worker thread of ThreadPoolExecutor(max_workers=jobs) takes the oldest
\* queued unit; there are never more than jobs threads.
Start(u) ==
    /\ upc[u] = "queued"
    /\ \A v \in Units : v < u => upc[v] # "queued"
    /\ Cardinality({ v \in Units : Executing(v) }) < jobs
    /\ upc' = [upc EXCEPT ![u] = "changelog"]
    /\ UNCHANGED <<inputVars, worktree, toolVars, built, now, fs, orchVars, idx, invoked, results, error,
                   changeSummary, future, runLog>>

\* What the change analysis and changelog step can do: analyze_changes
\* raises, .cliff.toml cannot be opened in the repository, the changelog
\* cannot be written, or changelog.md is written.
ChangelogOutcomes == { "raise_analyze", "raise_cliff", "raise_write", "written" }

\* The step "if self.since:" of scan_repo; self.since is always set. An
\* exception leaves the try block: the handler records it and scan_repo
\* returns the result.
ChangelogStep(u) ==
    /\ upc[u] = "changelog"
    /\ \E o \in ChangelogOutcomes :
          /\ changeSummary' = [changeSummary EXCEPT ![u] = (o # "raise_analyze")]
          /\ fs' = CASE o = "raise_analyze" -> fs
                     [] o = "raise_cliff"   -> Mkdir(fs, OutDir(repos[u]))
                     [] o = "raise_write"   -> Mkdir(fs, OutDir(repos[u]))
                     [] o = "written"       ->
                            WriteChangelog(Mkdir(fs, OutDir(repos[u])), OutDir(repos[u]))
          /\ IF o = "written"
             THEN /\ upc' = [upc EXCEPT ![u] = "checkers"]
                  /\ UNCHANGED <<error, future>>
             ELSE /\ upc' = [upc EXCEPT ![u] = "done"]
                  /\ error' = [error EXCEPT ![u] = "changelog"]
                  /\ future' = [future EXCEPT ![u] = "returned"]
          /\ worktree' = IF o \in { "raise_analyze", "raise_cliff" }
                         THEN worktree
                         ELSE [worktree EXCEPT ![repos[u].path].cliff_toml =
                                   GenerateChangelogWithGitCliff(@)]
    /\ UNCHANGED <<inputVars, toolVars, built, now, orchVars, idx, invoked, results, runLog>>

\* A checker loop without its inner try: what check() raises reaches the
\* handler of scan_repo.
CheckerStep_NoIsolation(u) ==
    /\ upc[u] = "checkers"
    /\ LET c == Checkers[idx[u]]
           o == project[repos[u].path][c]
       IN  /\ invoked' = [invoked EXCEPT ![u] = Append(@, c)]
           /\ results' = IF o = "raise"
                         THEN results
                         ELSE [results EXCEPT ![u][c] = o]
           /\ idx' = [idx EXCEPT ![u] = @ + 1]
           /\ IF o = "raise"
              THEN /\ upc' = [upc EXCEPT ![u] = "done"]
                   /\ error' = [error EXCEPT ![u] = "checker"]
                   /\ future' = [future EXCEPT ![u] = "returned"]
              ELSE /\ upc' = IF idx[u] = Len(Checkers)
                             THEN [upc EXCEPT ![u] = "report"]
                             ELSE upc
                   /\ UNCHANGED <<error, future>>
    /\ UNCHANGED <<inputVars, worktree, toolVars, built, now, fs, orchVars, changeSummary, runLog>>

\* One round of "for checker in checkers": check() is called; what it
\* returns is stored under the checker's name, what it raises is logged.
CheckerStep(u) ==
    /\ upc[u] = "checkers"
    /\ LET c == Checkers[idx[u]]
           o == project[repos[u].path][c]
       IN  /\ invoked' = [invoked EXCEPT ![u] = Append(@, c)]
           /\ results' = IF o = "raise"
                         THEN results
                         ELSE [results EXCEPT ![u][c] = o]
    /\ idx' = [idx EXCEPT ![u] = @ + 1]
    /\ upc' = IF idx[u] = Len(Checkers) THEN [upc EXCEPT ![u] = "report"] ELSE upc
    /\ UNCHANGED <<inputVars, worktree, toolVars, built, now, fs, orchVars, error, changeSummary, future, runLog>>

\* A scan_repo that calls the report writer outside its try block.
ReportStep_NoHandler(u) ==
    /\ upc[u] = "report"
    /\ LET r == GenerateRepoReport(fs, repos[u], ScanResultOf(u), now)
       IN  /\ fs' = r.fs
           /\ future' = [future EXCEPT ![u] = IF r.raised THEN "raised" ELSE "returned"]
    /\ upc' = [upc EXCEPT ![u] = "done"]
    /\ UNCHANGED <<inputVars, worktree, toolVars, built, now, orchVars, idx, invoked, results, error,
                   changeSummary, runLog>>

\* self._generate_repo_report(repo, result), the handler of the try block and
\* "return result".
ReportStep(u) ==
    /\ upc[u] = "report"
    /\ LET r == GenerateRepoReport(fs, repos[u], ScanResultOf(u), now)
       IN  /\ fs' = r.fs
           /\ error' = IF r.raised THEN [error EXCEPT ![u] = "report"] ELSE error
    /\ future' = [future EXCEPT ![u] = "returned"]
    /\ upc' = [upc EXCEPT ![u] = "done"]
    /\ UNCHANGED <<inputVars, worktree, toolVars, built, now, orchVars, idx, invoked, results, changeSummary, runLog>>

\* The task of a unit ends with an exception that scan_repo does not absorb:
\* the handler of the try block ("result.error = str(e)" and the logging
\* call) runs outside any try, so an exception it raises leaves scan_repo;
\* the executor stores it in the unit's Future. The handler runs when the
\* changelog step or the report writer has raised.
TaskRaises(u) ==
    /\ \/ /\ upc[u] = "changelog"
          /\ fs' = fs
       \/ /\ upc[u] = "report"
          /\ GenerateRepoReport(fs, repos[u], ScanResultOf(u), now).raised
          /\ fs' = GenerateRepoReport(fs, repos[u], ScanResultOf(u), now).fs
    /\ upc' = [upc EXCEPT ![u] = "done"]
    /\ future' = [future EXCEPT ![u] = "raised"]
    /\ UNCHANGED <<inputVars, worktree, toolVars, built, now, orchVars, idx, invoked, results, error,
                   changeSummary, runLog>>

\* ------------------------------------------------------------------------
\* scan_all, from as_completed on
\* ------------------------------------------------------------------------
\* A collector without the try around future.result(): the exception of a
\* unit leaves scan_all.
Collect_AbortOnRaise(u) ==
    /\ opc = "collect"
    /\ u \notin collected
    /\ upc[u] = "done"
    /\ collected' = collected \cup {u}
    /\ scanResults' = IF future[u] = "returned" THEN Append(scanResults, u) ELSE scanResults
    /\ opc' = IF future[u] = "raised"
              THEN "raised"
              ELSE IF collected \cup {u} = Units THEN "summary" ELSE "collect"
    /\ UNCHANGED <<inputVars, worktree, toolVars, built, now, fs, repos, submitted, summaryCalls, summaryWrites,
                   unitVars, runLog>>

\* A collector that keeps only the results without error.
Collect_DropFailed(u) ==
    /\ opc = "collect"
    /\ u \notin collected
    /\ upc[u] = "done"
    /\ collected' = collected \cup {u}
    /\ scanResults' = IF future[u] = "returned" /\ error[u] = "none"
                      THEN Append(scanResults, u)
                      ELSE scanResults
    /\ opc' = IF collected \cup {u} = Units THEN "summary" ELSE "collect"
    /\ UNCHANGED <<inputVars, worktree, toolVars, built, now, fs, repos, submitted, summaryCalls, summaryWrites,
                   unitVars, runLog>>

\* A collector that leaves the loop after the first finished unit.
Collect_EarlyExit(u) ==
    /\ opc = "collect"
    /\ u \notin collected
    /\ upc[u] = "done"
    /\ collected' = collected \cup {u}
    /\ scanResults' = IF future[u] = "returned" THEN Append(scanResults, u) ELSE scanResults
    /\ opc' = "summary"
    /\ UNCHANGED <<inputVars, worktree, toolVars, built, now, fs, repos, submitted, summaryCalls, summaryWrites,
                   unitVars, runLog>>

\* One round of "for future in as_completed(futures)": the result of a
\* finished unit is appended to results; an exception of future.result() is
\* logged. After the last round the executor is shut down.
Collect(u) ==
    /\ opc = "collect"
    /\ u \notin collected
    /\ upc[u] = "done"
    /\ collected' = collected \cup {u}
    /\ scanResults' = IF future[u] = "returned" THEN Append(scanResults, u) ELSE scanResults
    /\ opc' = IF collected \cup {u} = Units THEN "summary" ELSE "collect"
    /\ UNCHANGED <<inputVars, worktree, toolVars, built, now, fs, repos, submitted, summaryCalls, summaryWrites,
                   unitVars, runLog>>

\* The entries _generate_summary_report builds, in the order of the list it
\* is given.
ReposData(rs) == [i \in 1..Len(rs) |-> SummaryEntry(repos[rs[i]], ScanResultOf(rs[i]))]

\* self._generate_summary_report(results) and "return results".
GenerateSummary ==
    /\ opc = "summary"
    /\ summaryCalls' = summaryCalls + 1
    /\ summaryWrites' = IF scanResults = << >>
                        THEN summaryWrites
                        ELSE Append(summaryWrites, SortRepos(ReposData(scanResults)))
    /\ opc' = "returned"
    /\ UNCHANGED <<inputVars, worktree, toolVars, built, now, fs, repos, submitted, collected, scanResults,
                   unitVars, runLog>>

\* ------------------------------------------------------------------------
\* Specifications
\* ------------------------------------------------------------------------
UnitStep(u) ==
    \/ Start(u)
    \/ ChangelogStep(u)
    \/ CheckerStep(u)
    \/ ReportStep(u)

Next ==
    \/ ScanAllStart
    \/ Submit
    \/ \E u \in Units : UnitStep(u)
    \/ \E u \in Units : Collect(u)
    \/ GenerateSummary

\* scan_all on the trees of Walks.
Spec == Init /\ [][Next]_vars

\* scan_all on one repository, for every project.
SpecUnit == InitUnit /\ [][Next]_vars

NextEscape == Next \/ \E u \in Units : TaskRaises(u)

\* The trees of Walks, scanned with recursive = True (the default of
\* GitScanner.__init__), so that every marker of the walk is a candidate;
\* every repository holds the project with one checker outcome of each kind.
InitEscape ==
    /\ InitScanner(Walks, { OneOfEach }, 1..MaxJobs)
    /\ recursive

\* scan_all when the task of a unit may end with an exception.
SpecEscape == InitEscape /\ [][NextEscape]_vars

\* ------------------------------------------------------------------------
\* Discovery alone (GitScanner.find_git_repos)
\* ------------------------------------------------------------------------
\* The trees that are only searched.
DiscoveryWalks == { s \in SeqsOver(CandidatePaths, MaxMarkers) : ValidWalk(s) }

\* The days of the last commits: around the default since and around today.
DiscoveryDays == { Today - 8, Today - 7, Today - 1, Today }

\* Repositories whose last commit was made at midnight of one of these
\* days, and repositories in which git log shows nothing.
DiscoveryMetas == { GitNoLog } \cup { GitOk(d * TicksPerDay) : d \in DiscoveryDays }

\* No since, today at midnight, or today at the last tick.
DiscoverySinceArgs ==
    { NoDate, { Today * TicksPerDay }, { Today * TicksPerDay + (TicksPerDay - 1) } }

InitDiscovery ==
    /\ InitWith(DiscoveryWalks, { AllSuccess }, {1}, DiscoverySinceArgs, DiscoveryMetas)
    /\ rootExists = TRUE
    /\ outWritable = TRUE

\* scan_all up to the list find_git_repos returns.
NextDiscovery == ScanAllStart

SpecDiscovery == InitDiscovery /\ [][NextDiscovery]_vars

\* ------------------------------------------------------------------------
\* Metadata extraction and the construction of a GitRepo
\* ------------------------------------------------------------------------
\* What git can answer in a repository: every command fails or succeeds on
\* its own; git log prints a date of today or of eight days ago, or text
\* that is no date.
MetaOutcomes ==
    [branch : { GitFailed, GitSays("dev") },
     log    : { GitFailed, GitSays("garbage"), GitLogAt(Today * TicksPerDay),
                GitLogAt((Today - 8) * TicksPerDay) },
     remote : { GitFailed, GitSays("url") }]

InitMeta ==
    /\ InitWith(Walks, { AllSuccess }, {1}, { NoDate }, MetaOutcomes)
    /\ rootExists = TRUE
    /\ outWritable = TRUE

\* find_git_repos on repositories in which git commands fail.
SpecMeta == InitMeta /\ [][NextDiscovery]_vars

\* The path given to a direct call GitRepo(path=..., name=..., org=...): no
\* path, a path that does not exist, a directory without .git, a directory
\* with .git.
PathKinds == { "empty", "missing", "plain", "repo" }

\* What git can answer in a directory of that kind: in a missing directory
\* no command can be started; elsewhere git may find a repository (the
\* directory itself or one above it) or not.
GitAnswersIn(kind) ==
    IF kind \in { "empty", "missing" }
    THEN { [branch |-> GitFailed, log |-> GitFailed, remote |-> GitFailed] }
    ELSE MetaOutcomes

\* A caller constructs a GitRepo: the arguments, the answers of git and the
\* objects constructed (none when __post_init__ raised) are recorded.
Construct ==
    /\ built = {}
    /\ \E kind \in PathKinds, nm \in { Str_empty, Str_a }, og \in { Str_empty, Str_o } :
          \E m \in GitAnswersIn(kind) :
              built' = { [path |-> kind, name |-> nm, org |-> og, git |-> m,
                          made |-> NewGitRepo(kind, kind # "empty", nm, og, m)] }
    /\ UNCHANGED <<inputVars, worktree, toolVars, now, fs, orchVars, unitVars, runLog>>

InitRepo == InitScanner({ << >> }, { AllSuccess }, {1})

NextRepo == Construct

\* Direct constructions of GitRepo.
SpecRepo == InitRepo /\ [][NextRepo]_vars

\* ------------------------------------------------------------------------
\* Setup errors
\* ------------------------------------------------------------------------
\* scan_all with a root that may be missing and an output directory that
\* may be impossible to create.
InitSetup ==
    /\ InitWith(Walks, { AllSuccess }, 1..MaxJobs, { NoDate },
                { GitNoLog, GitOk(Today * TicksPerDay) })
    /\ rootExists \in BOOLEAN
    /\ outWritable \in BOOLEAN

SpecSetup == InitSetup /\ [][Next]_vars

\* ------------------------------------------------------------------------
\* The report writer run repeatedly on one output directory
\* ------------------------------------------------------------------------
\* The wall clock advances by a second.
Tick ==
    /\ now < MaxClock
    /\ now' = now + 1
    /\ UNCHANGED <<inputVars, worktree, toolVars, built, fs, orchVars, unitVars, runLog>>

\* The checker results of a scan of the repository at path p that got as
\* far as the report writer.
ResultsOf(p) ==
    [c \in CheckerNames |-> IF project[p][c] = "raise" THEN Absent ELSE project[p][c]]

\* A call _generate_repo_report(repo, result) for the repository of the
\* tree, made outside scan_repo: what it raises reaches the caller.
WriteRepoReport ==
    /\ walk # << >>
    /\ Len(runLog) < MaxRuns
    /\ \E cs \in BOOLEAN :
          LET repo == CHOOSE r \in GitRepo(walk[1], meta) : TRUE
              res  == [results |-> ResultsOf(walk[1]), error |-> "none",
                       change_summary |-> cs]
              r    == GenerateRepoReport(fs, repo, res, now)
          IN  /\ fs' = r.fs
              /\ runLog' = Append(runLog, [stamp |-> now, raised |-> r.raised,
                                           dir |-> OutDir(repo)])
    /\ UNCHANGED <<inputVars, worktree, toolVars, built, now, orchVars, unitVars>>

NextReport == Tick \/ WriteRepoReport

SpecReport == InitReport /\ [][NextReport]_vars

\* ------------------------------------------------------------------------
\* The summary of results a caller holds
\* ------------------------------------------------------------------------
\* The projects on which at most one checker does not succeed, and the one
\* with an outcome of each kind.
SummaryProjects ==
    { AllSuccess, OneOfEach }
        \cup { [AllSuccess EXCEPT ![c] = o] : c \in CheckerNames, o \in { "raise", "null", "error" } }

InitSummary == InitScanner({ << <<Str_o, Str_b>> >> }, SummaryProjects, {1})

\* A caller passes the ScanResult of the repository of the tree to
\* _generate_summary_report: a result with or without error, holding the
\* checker results of the project or none. The unit variables hold that
\* ScanResult.
SummarizeDirect ==
    /\ opc = "start"
    /\ walk # << >>
    /\ \E e \in { "none", "changelog", "report" }, rs \in { ResultsOf(walk[1]), NoResults } :
          LET repo == CHOOSE r \in GitRepo(walk[1], meta) : TRUE
              res  == [results |-> rs, error |-> e, change_summary |-> FALSE]
          IN  /\ repos' = <<repo>>
              /\ results' = <<rs>>
              /\ error' = <<e>>
              /\ summaryWrites' = Append(summaryWrites, SortRepos(<<SummaryEntry(repo, res)>>))
    /\ changeSummary' = <<FALSE>>
    /\ upc' = <<"done">>
    /\ idx' = <<1>>
    /\ invoked' = << << >> >>
    /\ future' = <<"returned">>
    /\ collected' = {1}
    /\ scanResults' = <<1>>
    /\ summaryCalls' = summaryCalls + 1
    /\ opc' = "returned"
    /\ UNCHANGED <<inputVars, worktree, toolVars, built, now, fs, submitted, runLog>>

NextSummary == Next \/ SummarizeDirect

\* scan_all on one repository, and the summary of a result held by a caller.
SpecSummary == InitSummary /\ [][NextSummary]_vars

\* ------------------------------------------------------------------------
\* Properties
\* ------------------------------------------------------------------------
\* scan_repo has returned the ScanResult of unit u.
Returned(u) == upc[u] = "done" /\ future[u] = "returned"

\* The checker loop of unit u was entered.
RanCheckers(u) == invoked[u] # << >>

\* C1: when scan_repo returns after its checker loop, every checker of the
\* list was called, in the order of the list, whichever of them raised; and
\* results holds an entry for exactly the checkers that returned, the value
\* each returned.
C1_CheckerFaultIsolation ==
    \A u \in Units :
        /\ \A i \in 1..Len(invoked[u]) : i <= Len(Checkers) /\ invoked[u][i] = Checkers[i]
        /\ (Returned(u) /\ RanCheckers(u)) =>
              /\ invoked[u] = Checkers
              /\ \A c \in CheckerNames :
                    results[u][c] = IF project[repos[u].path][c] = "raise"
                                    THEN Absent
                                    ELSE project[repos[u].path][c]

\* C1, its case: a unit has returned, a checker raised on it, and a checker
\* later in the list has its result in results.
C1_Witness ==
    \E u \in Units :
        /\ Returned(u)
        /\ \E i, j \in 1..Len(Checkers) :
              /\ i < j
              /\ project[repos[u].path][Checkers[i]] = "raise"
              /\ results[u][Checkers[i]] = Absent
              /\ results[u][Checkers[j]] = "success"

\* C2: when the changelog step of a unit raised, the checkers were still run
\* and the ScanResult returned has error set and the checker results in
\* results.
C2_ChangelogFailureKeepsCheckers ==
    \A u \in Units :
        (Returned(u) /\ error[u] = "changelog") =>
            /\ invoked[u] = Checkers
            /\ results[u] = ResultsOf(repos[u].path)

\* The report writer raises on the result of unit u.
ReportFails(u) == GenerateRepoReport(fs, repos[u], ScanResultOf(u), now).raised

C4_EscapedUnitOmitted ==
    /\ opc # "raised"
    /\ opc = "returned" =>
          \A u \in Units :
              /\ future[u] = "returned" => u \in Range(scanResults)
              /\ future[u] = "raised" => u \notin Range(scanResults)

\* C4, its case: scan_all has returned, the task of one unit raised, and the
\* result of another unit is in the list.
C4_Witness ==
    /\ opc = "returned"
    /\ \E u, v \in Units :
          /\ future[u] = "raised"
          /\ future[v] = "returned"
          /\ v \in Range(scanResults)

\* C5: at most jobs units are executing.
C5_AtMostJobsExecuting ==
    Cardinality({ u \in Units : Executing(u) }) <= jobs

\* C5, its case: more repositories than jobs; jobs units are executing and
\* another one waits in the queue.
C5_Witness ==
    /\ Len(repos) > jobs
    /\ Cardinality({ u \in Units : Executing(u) }) = jobs
    /\ \E u \in Units : upc[u] = "queued"

\* C6: the result list never holds a unit twice nor anything but a collected
\* unit of a discovered repository that returned; once the collection is
\* over it holds every unit that returned.
C6_ExactlyOneResultPerUnit ==
    /\ \A i, j \in 1..Len(scanResults) : i # j => scanResults[i] # scanResults[j]
    /\ \A i \in 1..Len(scanResults) :
          /\ scanResults[i] \in Units
          /\ scanResults[i] \in collected
          /\ future[scanResults[i]] = "returned"
    /\ opc \in { "summary", "returned" } =>
          Range(scanResults) = { u \in Units : future[u] = "returned" }

\* C6, its case: two units that finished in the reverse of the order of
\* submission, both in the list when the collection is over.
C6_Witness ==
    /\ opc = "summary"
    /\ Len(scanResults) = 2
    /\ scanResults[1] > scanResults[2]

KeyOf(e) == <<Lower(e.org), Lower(e.name)>>

\* The place of the repository at path p in the result list.
PlaceOf(p) == CHOOSE k \in 1..Len(scanResults) : repos[scanResults[k]].path = p

\* The units of the result list in the order of discovery.
InDiscoveryOrder ==
    SelectSeq([u \in 1..Len(repos) |-> u], LAMBDA u : u \in Range(scanResults))

\* Entries ordered by key, the empty organization first.
OrderedByKey(w) ==
    \A i, j \in 1..Len(w) :
        i < j =>
            /\ ~StrLess(Lower(w[j].org), Lower(w[i].org))
            /\ Lower(w[i].org) = Lower(w[j].org) =>
                  ~StrLess(Lower(w[j].name), Lower(w[i].name))

\* C8 as stated: the entries written are ordered by key, and they are the
\* same list whatever the order of completion, which is the list a
\* completion in the order of discovery gives.
C8_OrderIndependentOfCompletion ==
    \A n \in 1..Len(summaryWrites) :
        /\ OrderedByKey(summaryWrites[n])
        /\ summaryWrites[n] = SortRepos(ReposData(InDiscoveryOrder))

\* C8 as amended: the entries written are the entries of the results,
\* ordered by key, the empty organization first; entries with equal keys are
\* in the order of completion.
C8_OrderedByKeyTiesByCompletion ==
    \A n \in 1..Len(summaryWrites) :
        LET w == summaryWrites[n]
        IN  /\ Len(w) = Len(scanResults)
            /\ { w[i].path : i \in 1..Len(w) }
                  = { repos[u].path : u \in Range(scanResults) }
            /\ OrderedByKey(w)
            /\ \A i \in 1..Len(w) : w[i].org = Str_empty => \A j \in 1..i : w[j].org = Str_empty
            /\ \A i, j \in 1..Len(w) :
                  (i < j /\ KeyOf(w[i]) = KeyOf(w[j])) => PlaceOf(w[i].path) < PlaceOf(w[j].path)

\* C8, its case: two units completed in the reverse of the order of their
\* keys and the summary lists them by key, one with an empty organization
\* first.
C8_Witness ==
    /\ Len(summaryWrites) = 1
    /\ Len(scanResults) = 2
    /\ KeyLess(repos[scanResults[2]], repos[scanResults[1]])
    /\ summaryWrites[1][1].path = repos[scanResults[2]].path
    /\ summaryWrites[1][1].org = Str_empty
    /\ summaryWrites[1][2].org # Str_empty

\* C9: a scan_all that found no repository returns the empty list; no unit
\* exists, output_dir was not created and no summary was written.
C9_NothingFoundNothingWritten ==
    (opc = "returned" /\ repos = << >>) =>
        /\ scanResults = << >>
        /\ Units = {}
        /\ submitted = 0
        /\ fs = EmptyFs
        /\ summaryCalls = 0
        /\ summaryWrites = << >>

\* C9, its case: the tree holds a repository, but none with a recent
\* commit, and scan_all has returned.
C9_Witness ==
    /\ opc = "returned"
    /\ repos = << >>
    /\ walk # << >>

\* C10: after the second run of the report writer the report directory
\* holds one latest.html, linked to the file the second run wrote, and the
\* first run did not fail for want of a link.
C10_LatestPointsAtSecondRun ==
    Len(runLog) >= 2 =>
        LET d == runLog[2].dir
        IN  /\ ~runLog[1].raised
            /\ Cardinality({ l \in fs.latest : l[1] = d /\ l[2] = ".html" }) = 1
            /\ <<d, ".html", runLog[2].stamp>> \in fs.latest
            /\ <<d, runLog[2].stamp, ".html">> \in fs.files

\* C11: any two runs of the report writer on one report directory wrote
\* files under different timestamps, and the files of both are there.
C11_TimestampedFilesAccumulate ==
    \A i, j \in 1..Len(runLog) :
        (i < j /\ runLog[i].dir = runLog[j].dir) =>
            /\ runLog[i].stamp # runLog[j].stamp
            /\ \A k \in 1..Len(Suffixes) :
                  /\ <<runLog[i].dir, runLog[i].stamp, Suffixes[k]>> \in fs.files
                  /\ <<runLog[j].dir, runLog[j].stamp, Suffixes[k]>> \in fs.files

\* The files unit u has written or is about to write lie in its report
\* directory.
WritesInto(u) == OutDir(repos[u])

\* C12: every discovered repository has a report directory of its own, so
\* no two units executing at the same time write into the same directory.
C12_OwnOutputDirectory ==
    \A u, v \in Units :
        u # v =>
            /\ OutDir(repos[u]) # OutDir(repos[v])
            /\ (Executing(u) /\ Executing(v)) => WritesInto(u) # WritesInto(v)

\* The paths of the descriptors find_git_repos returned.
FoundPaths == { repos[u].path : u \in Units }

\* find_git_repos has returned.
Searched == opc # "start"

\* The descriptor of the repository at path p.
Descriptor(p) == repos[CHOOSE u \in Units : repos[u].path = p]

\* The naming rule of the claim: at depth 0 the name of the root, at depth
\* 1 the directory name, both without organization; deeper, the first
\* segment as organization and the last as name.
NamedByDepth(r) ==
    /\ Len(r.path) = 0 => (r.org = Str_empty /\ r.name = RootName)
    /\ Len(r.path) = 1 => (r.org = Str_empty /\ r.name = r.path[1])
    /\ Len(r.path) >= 2 => (r.org = r.path[1] /\ r.name = r.path[Len(r.path)])

\* The last commit of the repository at p passes the date filter.
PassesFilter(p) ==
    /\ meta[p].log.rc = 0
    /\ meta[p].log.text = "date"
    /\ DayOf(meta[p].log.at) >= DayOf(since)

C14_NonRecursiveDepthLimit ==
    (Searched /\ ~recursive) => \A u \in Units : Len(repos[u].path) <= 2

\* C15: with a since value, a repository is returned exactly when its last
\* commit date exists and its day is the day of since or a later one.
C15_SinceFilterByCalendarDate ==
    (Searched /\ sinceArg # NoDate) =>
        \A p \in Range(GitDirs(walk, recursive)) :
            p \in FoundPaths <=>
                /\ meta[p].log.rc = 0
                /\ meta[p].log.text = "date"
                /\ DayOf(meta[p].log.at) >= DayOf(DateOf(sinceArg))

\* C15, its case: since is a later time on the day of a last commit; that
\* repository is returned, one committed to the day before is not, and one
\* without a commit date is not.
C15_Witness ==
    /\ Searched
    /\ sinceArg # NoDate
    /\ \E p, q, r \in Range(walk) :
          /\ meta[p].log.rc = 0
          /\ meta[p].log.at < DateOf(sinceArg)
          /\ DayOf(meta[p].log.at) = DayOf(DateOf(sinceArg))
          /\ p \in FoundPaths
          /\ meta[q].log.rc = 0
          /\ DayOf(meta[q].log.at) = DayOf(DateOf(sinceArg)) - 1
          /\ q \notin FoundPaths
          /\ meta[r].log.rc # 0
          /\ r \notin FoundPaths

ExtractionFailed(p) ==
    \/ meta[p].branch.rc # 0
    \/ meta[p].remote.rc # 0
    \/ meta[p].log.rc # 0
    \/ meta[p].log.text # "date"

\* The last commit date of the repository at p is known and before since.
KnownOld(p) ==
    /\ meta[p].log.rc = 0
    /\ meta[p].log.text = "date"
    /\ DayOf(meta[p].log.at) < DayOf(since)

C18_NoRepoWithoutMarker ==
    \A b \in built : b.made # {} => b.path = "repo"

\* C18 as amended: the construction fails exactly when no path or no name
\* is given; for a path that does not exist the object is constructed with
\* the default branch, no last commit date and no remote URL.
C18_FailsOnlyWithoutPathOrName ==
    \A b \in built :
        /\ b.made = {} <=> (b.path = "empty" \/ b.name = Str_empty)
        /\ \A g \in b.made :
              /\ g.name = b.name
              /\ g.org = b.org
              /\ b.path = "missing" =>
                    (g.branch = "main" /\ g.last_commit_date = NoDate /\ g.remote_url = "")

\* C18, its case: an object constructed for a path that does not exist.
C18_Witness ==
    \E b \in built :
        /\ b.path = "missing"
        /\ \E g \in b.made : g.name = Str_a /\ g.branch = "main"

\* C19: when root_dir does not exist or output_dir cannot be created,
\* scan_all raises, and no unit was started; scan_all raises for nothing else.
C19_SetupErrorsAreFatal ==
    /\ (Searched /\ (~rootExists \/ ~outWritable)) =>
          /\ opc = "raised"
          /\ \A u \in Units : upc[u] = "new"
    /\ opc = "raised" => (~rootExists \/ ~outWritable)

\* The result behind an entry of the summary.
ResultBehind(e) == ScanResultOf(CHOOSE u \in Units : repos[u].path = e.path)

\* C20: an entry of the summary is flagged exactly when the result behind it
\* has error set or holds a checker result, not None, with a status other
\* than success; and every result passed has its entry.
C20_FlaggedIffErrorOrNonSuccess ==
    \A n \in 1..Len(summaryWrites) :
        LET w == summaryWrites[n]
        IN  /\ { w[i].path : i \in 1..Len(w) } = { repos[u].path : u \in Range(scanResults) }
            /\ \A i \in 1..Len(w) :
                  w[i].has_errors <=>
                      \/ ResultBehind(w[i]).error # "none"
                      \/ \E c \in CheckerNames :
                            /\ ResultBehind(w[i]).results[c] # Absent
                            /\ ResultBehind(w[i]).results[c] # "null"
                            /\ ResultBehind(w[i]).results[c] # "success"

\* C20, its case: a result without error whose only result that is no
\* success is None, listed and not flagged.
C20_Witness ==
    /\ Len(summaryWrites) = 1
    /\ Len(summaryWrites[1]) = 1
    /\ error[1] = "none"
    /\ \E c \in CheckerNames : results[1][c] = "null"
    /\ ~summaryWrites[1][1].has_errors

\* ------------------------------------------------------------------------
\* The artefacts of a scan
\* ------------------------------------------------------------------------
\* Unit u scanned a repository with a commit in the since window, wrote its
\* changelog and ran its checkers.
ScannedWithCommit(u) ==
    /\ upc[u] = "done"
    /\ dates[repos[u].path] # NoDate
    /\ invoked[u] # << >>

\* The report directory dir holds the link latest<suffix>.
HasLatest(dir, suffix) == \E l \in fs.latest : l[1] = dir /\ l[2] = suffix

\* C23: when scan_all has returned, the report directory of every repository
\* with a commit in the since window whose scan got past the changelog step
\* holds latest.html, latest.md, latest.llm.md and changelog.md, and
\* summary.html was written.
C23_ArtefactsPresent ==
    opc = "returned" =>
        \A u \in Units :
            ScannedWithCommit(u) =>
                /\ OutDir(repos[u]) \in fs.changelog
                /\ \A k \in 1..Len(Suffixes) : HasLatest(OutDir(repos[u]), Suffixes[k])
                /\ summaryWrites # << >>

\* ------------------------------------------------------------------------
\* The report writer on an output directory that holds earlier reports
\* ------------------------------------------------------------------------
\* The timestamp of a run made before the clock of the model starts.
EarlierStamp == 0 - 1

\* The report directory of the repository of the tree.
ReportDirOfTree == OutDir(CHOOSE r \in GitRepo(walk[1], meta) : TRUE)

\* What a completed run of a report writer at EarlierStamp leaves in dir:
\* the three report files and the three latest links to them.
LeftByEarlierRun(dir) ==
    UpdateLatestFrom(GenerateHtmlReport(Mkdir(EmptyFs, dir), dir, EarlierStamp),
                     dir, EarlierStamp, 1)

\* The report writer on the report directory of one repository; the
\* directory is new or holds the reports of an earlier completed run.
InitRerun ==
    /\ InitCore({ <<p>> : p \in CandidatePaths }, ScanProjects, {1}, { NoDate },
                { GitOk(Today * TicksPerDay) })
    /\ rootExists = TRUE
    /\ outWritable = TRUE
    /\ recursive
    /\ worktree = NoCliffToml
    /\ cli = NoCli
    /\ report = NoReport
    /\ fs \in { EmptyFs, LeftByEarlierRun(ReportDirOfTree) }

SpecRerun == InitRerun /\ [][NextReport]_vars

\* C24: after every run of the report writer, also one that raised, no
\* latest link of its report directory refers to a file of an earlier run.
C24_NoStaleLatest ==
    runLog # << >> =>
        LET last == runLog[Len(runLog)]
        IN  \A l \in fs.latest : l[1] = last.dir => l[3] = last.stamp

\* ------------------------------------------------------------------------
\* The links of the summary
\* ------------------------------------------------------------------------
\* C25: when summary.html has been written, every entry's report_path
\* {org}/{name}/latest.html names a latest.html that exists.
C25_SummaryLinksResolve ==
    \A n \in 1..Len(summaryWrites) :
        \A i \in 1..Len(summaryWrites[n]) :
            \E u \in Units :
                /\ summaryWrites[n][i].report_path = OutDir(repos[u]) \o <<"latest.html">>
                /\ HasLatest(OutDir(repos[u]), ".html")

\* ------------------------------------------------------------------------
\* Nested repositories
\* ------------------------------------------------------------------------
\* C26: in both modes, no descriptor returned lies inside the directory of
\* another descriptor returned.
C26_NoNestedDescriptor ==
    Searched =>
        \A u, v \in Units : ~IsProperPrefix(repos[u].path, repos[v].path)

\* ------------------------------------------------------------------------
\* The order of the steps of a scan unit
\* ------------------------------------------------------------------------
\* The order of the checkers in the registry.
RegistryOrder ==
    << "style", "code_quality", "dependencies", "documentation",
       "testing", "ci_cd", "security", "packaging" >>

\* The report writer was called for unit u.
ReportCalled(u) == upc[u] = "done" /\ error[u] = "report"

\* C27: in every unit the checkers are called one at a time in registry
\* order, none before the changelog step has ended and the next one only
\* when the one before it has returned or raised, and the report writer is
\* called only after the last of them.
C27_StepsInFixedOrder ==
    \A u \in Units :
        /\ Len(invoked[u]) <= Len(RegistryOrder)
        /\ \A i \in 1..Len(invoked[u]) : invoked[u][i] = RegistryOrder[i]
        /\ upc[u] \in { "new", "queued", "changelog" } => invoked[u] = << >>
        /\ invoked[u] # << >> => OutDir(repos[u]) \in fs.changelog
        /\ upc[u] = "checkers" => idx[u] = Len(invoked[u]) + 1
        /\ (upc[u] = "report" \/ ReportCalled(u)) => invoked[u] = RegistryOrder

\* C27, its case: a unit whose checkers partly raised went through all of
\* them and the report writer while another unit was executing.
C27_Witness ==
    \E u, v \in Units :
        /\ u # v
        /\ ReportCalled(u)
        /\ invoked[u] = RegistryOrder
        /\ \E c \in CheckerNames : project[repos[u].path][c] = "raise"
        /\ Executing(v)

\* ------------------------------------------------------------------------
\* Completion of the batch
\* ------------------------------------------------------------------------
\* Trees of zero to MaxRepos repositories beside each other.
BatchWalks ==
    LET all == << <<Str_a>>, <<Str_A>>, <<Str_o, Str_b>>, <<Str_o, Str_x, Str_b>> >>
    IN  { SubSeq(all, 1, n) : n \in 0..MaxRepos }

\* Batches of every size up to MaxRepos for every number of jobs up to
\* MaxJobs: every repository was committed to today, every checker succeeds.
InitFair ==
    /\ InitWith(BatchWalks, { AllSuccess }, 1..MaxJobs, { NoDate },
                { GitOk(Today * TicksPerDay) })
    /\ rootExists = TRUE
    /\ outWritable = TRUE
    /\ recursive

\* The main thread goes on with scan_all whenever it can (it blocks only in
\* as_completed, until a unit is done); an idle worker thread takes a
\* queued unit; a unit that is executing goes on to its next step, since
\* every step terminates.
Fairness ==
    /\ WF_vars(ScanAllStart)
    /\ WF_vars(Submit)
    /\ WF_vars(GenerateSummary)
    /\ \A u \in 1..MaxRepos :
          /\ WF_vars(u \in Units /\ UnitStep(u))
          /\ WF_vars(u \in Units /\ Collect(u))

\* scan_all with threads that are scheduled.
SpecFair == InitFair /\ [][Next]_vars /\ Fairness

\* C28: scan_all eventually returns, and every unit submitted has then been
\* taken by a worker thread, executed to its end and collected.
C28_BatchCompletes ==
    <>( /\ opc = "returned"
        /\ submitted = Len(repos)
        /\ collected = Units
        /\ \A u \in Units : upc[u] = "done" )

\* C28, its case: scan_all has returned from a batch of more units than
\* worker threads.
C28_Witness ==
    /\ opc = "returned"
    /\ Len(repos) > jobs
    /\ collected = Units
    /\ \A u \in Units : upc[u] = "done" /\ invoked[u] = Checkers

\* ------------------------------------------------------------------------
\* The working tree of a scanned repository
\* ------------------------------------------------------------------------
\* One repository committed to today, with or without a .cliff.toml of its
\* own.
InitTree ==
    /\ InitCore({ << <<Str_o, Str_b>> >> }, ScanProjects, {1}, { NoDate },
                { GitOk(Today * TicksPerDay) })
    /\ rootExists = TRUE
    /\ outWritable = TRUE
    /\ fs = EmptyFs
    /\ cli = NoCli
    /\ report = NoReport
    /\ worktree \in [Range(walk) ->
                        { [before |-> c, cliff_toml |-> c] : c \in { NoFile, OwnConfig } }]

\* scan_all on a repository that may have its own git-cliff configuration.
SpecTree == InitTree /\ [][Next]_vars

\* C29: once the changelog step of a unit has ended, by return or by
\* exception, the repository's .cliff.toml is what it was before the scan:
\* absent if it was absent, the repository's own file if it had one.
C29_WorkingTreeUnchanged ==
    \A u \in Units :
        upc[u] \in { "checkers", "report", "done" } =>
            /\ worktree[repos[u].path].cliff_toml # MinimalConfig
            /\ worktree[repos[u].path].cliff_toml = worktree[repos[u].path].before

\* ------------------------------------------------------------------------
\* The core Report (weekly.core.report.Report)
\* ------------------------------------------------------------------------
MaxResults == 4

\* The statuses of the results added: those the counters know, the one the
\* checkers use besides, and one that differs from "success" by its case.
Statuses == { "success", "warning", "error", "suggestion", "Success" }

\* Report(project): no results, every counter 0.
NewReport ==
    [pc |-> "open", results |-> << >>,
     summary |-> [total_checks |-> 0, success |-> 0, warnings |-> 0, errors |-> 0]]

\* An add_result that counts a suggestion as a warning.
AddResult_SuggestionAsWarning(rep, status) ==
    [rep EXCEPT !.results = Append(@, status),
                !.summary.total_checks = @ + 1,
                !.summary.success = IF status = "success" THEN @ + 1 ELSE @,
                !.summary.warnings =
                    IF status \in { "warning", "suggestion" } THEN @ + 1 ELSE @,
                !.summary.errors = IF status = "error" THEN @ + 1 ELSE @]

\* Report.add_result(result) for a result with that status: the result is
\* appended, total_checks is incremented, and the counter of the status is
\* incremented if the status is "success", "warning" or "error".
AddResult(rep, status) ==
    [rep EXCEPT !.results = Append(@, status),
                !.summary.total_checks = @ + 1,
                !.summary.success = IF status = "success" THEN @ + 1 ELSE @,
                !.summary.warnings = IF status = "warning" THEN @ + 1 ELSE @,
                !.summary.errors = IF status = "error" THEN @ + 1 ELSE @]

\* A caller adds a result to the report.
AddResultCall ==
    /\ report.pc = "open"
    /\ Len(report.results) < MaxResults
    /\ \E status \in Statuses : report' = AddResult(report, status)
    /\ UNCHANGED <<inputVars, worktree, cli, built, now, fs, orchVars, unitVars, runLog>>

\* A Report just created, and nothing else going on.
InitAddResult ==
    /\ InitCore({ << >> }, { AllSuccess }, {1}, { NoDate }, { GitNoLog })
    /\ recursive
    /\ rootExists = TRUE
    /\ outWritable = TRUE
    /\ fs = EmptyFs
    /\ worktree = NoCliffToml
    /\ cli = NoCli
    /\ report = NewReport

NextAddResult == AddResultCall

\* Sequences of add_result calls on one Report.
SpecAddResult == InitAddResult /\ [][NextAddResult]_vars

\* How many stored results have a status of S.
CountIn(S) == Cardinality({ i \in 1..Len(report.results) : report.results[i] \in S })

\* C30: total_checks is the number of stored results, each of success,
\* warnings and errors is the number of stored results with exactly that
\* status, and what total_checks exceeds their sum by is the number of
\* results with any other status.
C30_CountersMatchResults ==
    report.pc = "open" =>
        /\ report.summary.total_checks = Len(report.results)
        /\ report.summary.success = CountIn({ "success" })
        /\ report.summary.warnings = CountIn({ "warning" })
        /\ report.summary.errors = CountIn({ "error" })
        /\ report.summary.success + report.summary.warnings + report.summary.errors
               <= report.summary.total_checks
        /\ report.summary.total_checks
               - (report.summary.success + report.summary.warnings + report.summary.errors)
               = CountIn(Statuses \ { "success", "warning", "error" })

\* C30, its case: a report holding a success, a suggestion and an error:
\* three checks, of which the counters cover two.
C30_Witness ==
    /\ report.pc = "open"
    /\ report.results = << "success", "suggestion", "error" >>
    /\ report.summary.total_checks = 3
    /\ report.summary.success + report.summary.warnings + report.summary.errors = 2

\* ------------------------------------------------------------------------
\* The command line (weekly.cli)
\* ------------------------------------------------------------------------
\* How the function of a command ends: it returns a value, it calls
\* sys.exit(value), or it has not ended.
Running == [kind |-> "running", value |-> 0]

Returns(v) == [kind |-> "return", value |-> v]

\* A return without value; as an exit status None stands for 0.
ReturnsNone == [kind |-> "return", value |-> 0]

SysExit(v) == [kind |-> "sys.exit", value |-> v]

\* No exit code yet.
NoExit == {}

\* The exit code of the process: main is a click group called in standalone
\* mode, which exits with the code of a SystemExit raised by the function
\* and with 0 when the function returns, whatever it returns.
ProcessExit(end) == IF end.kind = "sys.exit" THEN end.value ELSE 0

\* ------------------------------------------------------------------------
\* The analyze command
\* ------------------------------------------------------------------------
\* The list "checkers" of analyze_project, by checker.name, in its order.
AnalyzerCheckers ==
    << "style", "testing", "documentation", "ci_cd", "dependencies",
       "code_quality", "security", "packaging", "release_readiness" >>

AnalyzerCheckerNames == Range(AnalyzerCheckers)

\* What check(project) does in analyze_project: it raises, returns None, or
\* returns a CheckResult with one of the statuses the checkers use.
AnalyzerOutcomes == { "raise", "null", "success", "warning", "suggestion", "error" }

AnalyzerAllSuccess == [c \in AnalyzerCheckerNames |-> "success"]

\* The projects on which at most two checkers do not return success.
AnalyzerProjects ==
    { [AnalyzerAllSuccess EXCEPT ![c] = o, ![d] = q] :
          c \in { "style", "dependencies" }, d \in { "testing", "release_readiness" },
          o \in AnalyzerOutcomes, q \in AnalyzerOutcomes }

\* What can raise in analyze outside the checkers: nothing, Project(path) in
\* analyze_project, or the writing of the output file.
AnalyzeFaults == { "none", "project", "output" }

\* The analyze command is invoked on a project.
InitAnalyze ==
    /\ InitCore({ << >> }, { AllSuccess }, {1}, { NoDate }, { GitNoLog })
    /\ recursive
    /\ rootExists = TRUE
    /\ outWritable = TRUE
    /\ fs = EmptyFs
    /\ worktree = NoCliffToml
    /\ report = NoReport
    /\ \E p \in AnalyzerProjects, f \in AnalyzeFaults :
          cli = [pc |-> "invoked", cmd |-> "analyze", checks |-> p, fault |-> f,
                 idx |-> 1, end |-> Running, exit |-> NoExit]

\* analyze up to the loop of analyze_project: Project(project_path) and
\* Report(project); an exception of Project reaches the handler of analyze,
\* which calls sys.exit(1).
AnalyzeStart ==
    /\ cli.pc = "invoked"
    /\ cli.cmd = "analyze"
    /\ IF cli.fault = "project"
       THEN /\ cli' = [cli EXCEPT !.pc = "exited", !.end = SysExit(1),
                                  !.exit = { ProcessExit(SysExit(1)) }]
            /\ report' = report
       ELSE /\ cli' = [cli EXCEPT !.pc = "checkers"]
            /\ report' = NewReport
    /\ UNCHANGED <<inputVars, worktree, built, now, fs, orchVars, unitVars, runLog>>

\* One round of "for checker in checkers" of analyze_project: a result that
\* is not None is added to the report; what check() raises is logged.
AnalyzeCheck ==
    /\ cli.pc = "checkers"
    /\ LET o == cli.checks[AnalyzerCheckers[cli.idx]]
       IN  report' = IF o \in { "raise", "null" } THEN report ELSE AddResult(report, o)
    /\ cli' = [cli EXCEPT !.idx = @ + 1,
                          !.pc = IF cli.idx = Len(AnalyzerCheckers) THEN "output" ELSE @]
    /\ UNCHANGED <<inputVars, worktree, built, now, fs, orchVars, unitVars, runLog>>

\* An analyze that returns 1, as scan does, where it should call sys.exit(1).
AnalyzeEnd_ReturnsCode(rep, fault) ==
    IF fault = "output" THEN Returns(1)
    ELSE IF rep.summary.errors > 0 THEN Returns(1)
    ELSE ReturnsNone

\* How analyze ends after analyze_project has returned: an exception while
\* the output is formatted or written reaches the handler, which calls
\* sys.exit(1); otherwise sys.exit(1) when summary["errors"] > 0, and a
\* plain return when not.
AnalyzeEnd(rep, fault) ==
    IF fault = "output" THEN SysExit(1)
    ELSE IF rep.summary.errors > 0 THEN SysExit(1)
    ELSE ReturnsNone

\* The rest of analyze and the exit of the process.
AnalyzeExit ==
    /\ cli.pc = "output"
    /\ cli' = [cli EXCEPT !.pc = "exited", !.end = AnalyzeEnd(report, cli.fault),
                          !.exit = { ProcessExit(AnalyzeEnd(report, cli.fault)) }]
    /\ UNCHANGED <<inputVars, worktree, report, built, now, fs, orchVars, unitVars, runLog>>

NextAnalyze == AnalyzeStart \/ AnalyzeCheck \/ AnalyzeExit

SpecAnalyze == InitAnalyze /\ [][NextAnalyze]_vars

\* C22: analyze exits with a code other than 0 exactly when a checker
\* returned a result with status error or something outside the checkers
\* raised; results with status success, warning or suggestion, None, and
\* exceptions inside a checker leave the exit code 0.
C22_AnalyzeExitCode ==
    (cli.cmd = "analyze" /\ cli.pc = "exited") =>
        (cli.exit # {0} <=>
            \/ cli.fault # "none"
            \/ \E c \in AnalyzerCheckerNames : cli.checks[c] = "error")

\* C22, its case: one checker raised, another returned a suggestion, none
\* an error, nothing else raised, and the exit code is 0.
C22_Witness ==
    /\ cli.cmd = "analyze"
    /\ cli.pc = "exited"
    /\ cli.fault = "none"
    /\ cli.checks["style"] = "raise"
    /\ cli.checks["release_readiness"] = "suggestion"
    /\ report.summary.total_checks = Len(AnalyzerCheckers) - 1
    /\ cli.exit = {0}

\* ------------------------------------------------------------------------
\* The scan command
\* ------------------------------------------------------------------------
\* The values of --since: not given; "N days ago" with a number or with
\* something int() rejects; a date strptime accepts, or any other text.
SinceStrings ==
    { [form |-> "absent", n |-> NoDate],
      [form |-> "days", n |-> {1}],
      [form |-> "days", n |-> NoDate],
      [form |-> "date", n |-> { Today }],
      [form |-> "date", n |-> NoDate] }

\* The parsing of --since in scan: whether scan goes on, and the since it
\* passes to GitScanner. A text containing "day" gives now minus its number
\* of days, or now minus 7 days when it starts with no number; any other
\* text gives midnight of its date, or makes scan return 1.
ParseSince(s, nowTicks) ==
    CASE s.form = "absent" -> [ok |-> TRUE, since |-> NoDate]
      [] s.form = "days" ->
            [ok |-> TRUE,
             since |-> IF s.n # NoDate
                       THEN { nowTicks - DateOf(s.n) * TicksPerDay }
                       ELSE { nowTicks - 7 * TicksPerDay }]
      [] s.form = "date" ->
            IF s.n # NoDate
            THEN [ok |-> TRUE, since |-> { DateOf(s.n) * TicksPerDay }]
            ELSE [ok |-> FALSE, since |-> NoDate]

\* The scan command is invoked on an existing root (click rejects any other
\* before scan runs), with an output directory that may be impossible to
\* create; the scanner it will create gets the since parsed from --since.
InitCli ==
    /\ InitCore(BatchWalks, { AllSuccess }, {1},
                { ParseSince(s, NowAtInit).since : s \in SinceStrings },
                { GitOk(Today * TicksPerDay) })
    /\ rootExists = TRUE
    /\ outWritable \in BOOLEAN
    /\ fs = EmptyFs
    /\ worktree = NoCliffToml
    /\ report = NoReport
    /\ \E s \in SinceStrings :
          /\ sinceArg = ParseSince(s, NowAtInit).since
          /\ cli = [pc |-> "invoked", cmd |-> "scan", since_str |-> s,
                    scanner |-> FALSE, end |-> Running, exit |-> NoExit]

\* scan up to scanner.scan_all(): --since is parsed; a date that cannot be
\* parsed makes scan return 1; otherwise the GitScanner is created.
ScanCommand ==
    /\ cli.pc = "invoked"
    /\ cli.cmd = "scan"
    /\ IF ParseSince(cli.since_str, NowAtInit).ok
       THEN cli' = [cli EXCEPT !.pc = "scan_all", !.scanner = TRUE]
       ELSE cli' = [cli EXCEPT !.pc = "exited", !.end = Returns(1),
                               !.exit = { ProcessExit(Returns(1)) }]
    /\ UNCHANGED <<inputVars, worktree, report, built, now, fs, orchVars, unitVars, runLog>>

\* How scan ends after scan_all: "return 0" when scan_all returned, with or
\* without results; "return 1" from the handler when it raised.
ScanEnd(scanAllRaised) == IF scanAllRaised THEN Returns(1) ELSE Returns(0)

\* The end of scan and the exit of the process.
ScanCommandExit ==
    /\ cli.pc = "scan_all"
    /\ opc \in { "returned", "raised" }
    /\ cli' = [cli EXCEPT !.pc = "exited", !.end = ScanEnd(opc = "raised"),
                          !.exit = { ProcessExit(ScanEnd(opc = "raised")) }]
    /\ UNCHANGED <<inputVars, worktree, report, built, now, fs, orchVars, unitVars, runLog>>

\* scan_all runs inside scan.
ScanAllInCommand == cli.pc = "scan_all" /\ Next

NextCli == ScanCommand \/ ScanAllInCommand \/ ScanCommandExit

SpecCli == InitCli /\ [][NextCli]_vars

\* The run of scan was aborted: the date of --since could not be parsed, or
\* an exception left scan_all.
Aborted == ~ParseSince(cli.since_str, NowAtInit).ok \/ opc = "raised"

\* C21: scan exits with a code other than 0 exactly when the run was
\* aborted, with 1 and without a scanner when --since holds a date that
\* cannot be parsed, and with 0 whenever scan_all returned.
C21_ScanExitCode ==
    (cli.cmd = "scan" /\ cli.pc = "exited") =>
        /\ cli.exit # {0} <=> Aborted
        /\ ~ParseSince(cli.since_str, NowAtInit).ok => (cli.exit = {1} /\ ~cli.scanner)
        /\ opc = "returned" => cli.exit = {0}

====
